---- MODULE Spec2Model ----
(***************************************************************************)
(* State-machine model of the movie API of movie_routes.py: the handlers   *)
(* list_movies, search_movies, update_movie_by_title, common_movies_count, *)
(* users_rated_movie and movies_rated_by_user, over a MongoDB "movies"     *)
(* collection and a Neo4j graph of (Person)-[:REVIEWED]->(Movie).          *)
(*                                                                         *)
(* A document is a function from the field names it holds to values, so a  *)
(* missing field differs from a field holding null.  Of the twenty         *)
(* optional fields of MovieUpdate the model keeps title (the update key    *)
(* and a search field) and cast (the other search field); every field of   *)
(* the patch is written by the same $set.                                  *)
(***************************************************************************)
EXTENDS Integers, Sequences, FiniteSets, TLC

VARIABLES movies,   \* the "movies" collection, in the store's natural order
          graph,    \* the Neo4j graph: Person names, Movie titles, REVIEWED edges
          resp,     \* the response of the request just handled, or NoResp
          pre,      \* history: the collection as it was when that request arrived
          inflight  \* the update requests under way when requests run concurrently

vars == <<movies, graph, resp, pre, inflight>>

\* ---------------------------------------------------------------- bounds
MaxMovies == 2        \* documents in the collection
MaxArgLen == 1        \* length of a search argument
MaxPersons == 2       \* Person nodes of the graph
MaxGraphMovies == 2   \* Movie nodes of the graph
MaxRequests == 2      \* update requests handled concurrently

\* ------------------------------------------------------- program constants
ListLimit == 10
HTTP_200_OK == 200
HTTP_404_NOT_FOUND == 404
HTTP_500_INTERNAL_SERVER_ERROR == 500

\* ------------------------------------------------------------------ values
Alphabet == {"a", "A", "."}

\* strings are sequences of characters
Strings(n) == UNION {[1..k -> Alphabet] : k \in 0..n}

None == [tag |-> "none"]
Str(s) == [tag |-> "str", v |-> s]
List(l) == [tag |-> "list", v |-> l]

TitlePool == {<<"A", "a">>, <<"a", ".">>}
CastPool == {<< <<"A">>, <<".">> >>, << <<"a">> >>}

\* Python truth value of an Optional[str] argument: None and "" are falsy
Truthy(v) == v.tag = "str" /\ Len(v.v) > 0

\* ------------------------------------------------------------------- regex
Lower(c) == IF c = "A" THEN "a" ELSE c

MetaChars == {".", "\\"}

\* faulty variant: the argument is compiled as it is, without escaping
reEscape_unescaped(s) == s

\* re.escape: a backslash in front of every special character
RECURSIVE reEscape(_)
reEscape(s) ==
    IF s = <<>> THEN <<>>
    ELSE (IF Head(s) \in MetaChars THEN <<"\\", Head(s)>> ELSE <<Head(s)>>)
         \o reEscape(Tail(s))

\* re.compile: the source text parsed into one-character items;
\* an unescaped "." is the wildcard, an escaped character is a literal
RECURSIVE reCompile(_)
reCompile(src) ==
    IF src = <<>> THEN <<>>
    ELSE IF Head(src) = "\\" /\ Len(src) >= 2
         THEN <<[kind |-> "lit", c |-> src[2]]>> \o reCompile(Tail(Tail(src)))
         ELSE IF Head(src) = "."
              THEN <<[kind |-> "any"]>> \o reCompile(Tail(src))
              ELSE <<[kind |-> "lit", c |-> Head(src)]>> \o reCompile(Tail(src))

\* faulty variant: the IGNORECASE flag is dropped
ItemMatches_case_sensitive(item, c) == item.kind = "any" \/ item.c = c

\* one item against one character under re.IGNORECASE
ItemMatches(item, c) == item.kind = "any" \/ Lower(item.c) = Lower(c)

\* an unanchored match of the compiled pattern somewhere in the text
regexSearch(pattern, text) ==
    \E start \in 0..(Len(text) - Len(pattern)) :
        \A i \in 1..Len(pattern) : ItemMatches(pattern[i], text[start + i])

\* ---------------------------------------------------------- document store
HasField(doc, f) == f \in DOMAIN doc

\* a regex condition on a field: a string value must match; of an array
\* value, some element must match; a missing or null field never matches
FieldMatchesRegex(doc, f, pattern) ==
    /\ HasField(doc, f)
    /\ \/ doc[f].tag = "str" /\ regexSearch(pattern, doc[f].v)
       \/ doc[f].tag = "list" /\ \E i \in 1..Len(doc[f].v) : regexSearch(pattern, doc[f].v[i])

\* an equality condition on a field
FieldEquals(doc, f, value) == HasField(doc, f) /\ doc[f] = value

\* collection.find(query): query maps field names to compiled patterns
find(coll, query) ==
    SelectSeq(coll, LAMBDA doc : \A f \in DOMAIN query : FieldMatchesRegex(doc, f, query[f]))

\* positions of the documents whose title equals the argument
TitleIndexes(coll, title) == {i \in 1..Len(coll) : FieldEquals(coll[i], "title", Str(title))}

Min(S) == CHOOSE x \in S : \A y \in S : x <= y

\* collection.find_one({"title": title}): the first match, or None
find_one(coll, title) ==
    IF TitleIndexes(coll, title) = {} THEN None ELSE coll[Min(TitleIndexes(coll, title))]

\* {"$set": data} applied to one document
ApplySet(doc, data) ==
    [f \in (DOMAIN doc) \cup (DOMAIN data) |-> IF f \in DOMAIN data THEN data[f] ELSE doc[f]]

\* collection.update_one({"title": title}, {"$set": data}): the collection
\* afterwards and modified_count (0 when nothing matches, and 0 when the
\* matched document already holds the values)
update_one(coll, title, data) ==
    IF TitleIndexes(coll, title) = {}
    THEN [coll |-> coll, modified_count |-> 0]
    ELSE LET i == Min(TitleIndexes(coll, title))
             new == ApplySet(coll[i], data)
         IN  [coll |-> [coll EXCEPT ![i] = new],
              modified_count |-> IF new = coll[i] THEN 0 ELSE 1]

\* ------------------------------------------------------------- MovieUpdate
PatchFields == {"title", "cast"}

MovieUpdates ==
    [title : {None} \cup {Str(t) : t \in TitlePool},
     cast  : {None} \cup {List(c) : c \in CastPool}]

\* faulty variant: the patch model carries the identifier field of Movie,
\* whose default is a new identifier, and the dump writes it
model_dump_with_id(movie) ==
    [f \in {k \in PatchFields : movie[k] # None} \cup {"_id"} |->
        IF f = "_id" THEN 0 ELSE movie[f]]

\* {k: v for k, v in movie.model_dump().items() if v is not None}
model_dump_not_none(movie) ==
    [f \in {k \in PatchFields : movie[k] # None} |-> movie[f]]

\* faulty variant: the write is attempted for an empty patch too
HasData_always(movie_data) == Cardinality(DOMAIN movie_data) >= 0

\* len(movie_data) >= 1
HasData(movie_data) == Cardinality(DOMAIN movie_data) >= 1

\* ------------------------------------------------------------------ states
NoResp == [op |-> "none"]

Documents ==
    { [f \in F |-> IF f = "title" THEN d.title ELSE d.cast] :
        F \in {{"title", "cast"}, {"cast"}},
        d \in [title : {None} \cup {Str(t) : t \in TitlePool},
               cast  : {None} \cup {List(c) : c \in CastPool}] }

WithId(doc, i) == [f \in (DOMAIN doc) \cup {"_id"} |-> IF f = "_id" THEN i ELSE doc[f]]

\* collections of up to n documents; the i-th document has identifier i
Collections(n) ==
    UNION { {[i \in 1..k |-> WithId(s[i], i)] : s \in [1..k -> Documents]} : k \in 0..n }

\* ------------------------------------------------------------- graph store
\* name[p] is the name of Person p, title[m] the title of Movie m (None when
\* the node has no such property), reviewed the set of REVIEWED edges <<p, m>>
NamePool == {<<"a">>, <<"A">>}
GraphTitlePool == {<<"A", "a">>, <<"a", "a">>}

Graphs(np, nm) ==
    UNION { UNION { [name     : [1..p -> {Str(n) : n \in NamePool}],
                     title    : [1..m -> {None} \cup {Str(t) : t \in GraphTitlePool}],
                     reviewed : SUBSET ((1..p) \X (1..m))] : m \in 0..nm } : p \in 0..np }

EmptyGraph == [name |-> <<>>, title |-> <<>>, reviewed |-> {}]

\* the graphs the document operations are explored with: the empty graph, and
\* a graph holding both titles of TitlePool, a title no document has, a title
\* twice and a Movie without title
SampleGraphs ==
    { EmptyGraph,
      [name |-> <<Str(<<"a">>), Str(<<"A">>)>>,
       title |-> <<Str(<<"A", "a">>), Str(<<"a", ".">>), Str(<<"a", "a">>), Str(<<"A", "a">>), None>>,
       reviewed |-> {<<1, 1>>, <<2, 4>>, <<2, 5>>}] }

PersonNode(g, p) == [id |-> p, name |-> g.name[p]]
MovieNode(g, m) == [id |-> m, title |-> g.title[m]]

\* faulty variant: the property is compared without regard to letter case
PropEquals_case_folded(prop, value) ==
    prop # None /\ [i \in 1..Len(prop.v) |-> Lower(prop.v[i])] = [i \in 1..Len(value.v) |-> Lower(value.v[i])]

\* a property map {key: $value} in a pattern: the property must equal the
\* parameter; a node without the property does not match
PropEquals(prop, value) == prop # None /\ prop = value

\* x IN list as a WHERE condition: a null x, or an x absent from the list, is not kept
CypherIn(x, xs) == x # None /\ x \in xs

RECURSIVE SetToSeq(_)
SetToSeq(S) ==
    IF S = {} THEN <<>>
    ELSE LET x == CHOOSE y \in S : TRUE IN <<x>> \o SetToSeq(S \ {x})

\* MATCH (p:Person)-[:REVIEWED]->(:Movie {title: $title}) RETURN p
\* one row per matched edge
users_rows(g, title) ==
    LET rows == SetToSeq({e \in g.reviewed : PropEquals(g.title[e[2]], Str(title))})
    IN  [i \in 1..Len(rows) |-> PersonNode(g, rows[i][1])]

\* MATCH (:Person {name:$name})-[:REVIEWED]->(m:Movie) RETURN COUNT(m), COLLECT(m)
\* the aggregation yields exactly one row, also over no match
movies_aggregate(g, name) ==
    LET matched == {e \in g.reviewed : PropEquals(g.name[e[1]], Str(name))}
        rows == SetToSeq(matched)
    IN  <<Cardinality(matched), [i \in 1..Len(rows) |-> MovieNode(g, rows[i][2])]>>

\* MATCH (m:Movie) WHERE m.title IN $titles RETURN m.title
titles_in(g, titles) ==
    LET kept == SetToSeq({m \in 1..Len(g.title) : CypherIn(g.title[m], titles)})
    IN  [i \in 1..Len(kept) |-> g.title[kept[i]]]

\* -------------------------------------------------- Python object protocol
Cursor(docs) == [tag |-> "cursor", docs |-> docs]
Result(rows) == [tag |-> "result", rows |-> rows]

\* truth value of a pymongo Cursor or a neo4j Result: neither class defines
\* __bool__ or __len__, so the object is true whatever it holds
ObjectBool(obj) == TRUE

\* truth value of a neo4j Record: a tuple of the returned columns
RecordBool(data) == Len(data) > 0

Range(s) == {s[i] : i \in 1..Len(s)}

\* list(a_set): the elements in some order
ListsOf(S) == {s \in [1..Cardinality(S) -> S] : Range(s) = S}

\* ------------------------------------------------------------------ inputs
SearchArgs == {None} \cup {Str(s) : s \in Strings(MaxArgLen)}
UpdateTitles == TitlePool \cup {<<"a", "a">>}
GraphTitleArgs == GraphTitlePool \cup {<<"a">>}
GraphNameArgs == NamePool \cup {<<"a", "a">>}

Init ==
    /\ movies \in Collections(MaxMovies)
    /\ graph \in SampleGraphs
    /\ resp = NoResp
    /\ pre = movies
    /\ inflight = <<>>

InitGraph ==
    /\ movies = <<>>
    /\ graph \in Graphs(MaxPersons, MaxGraphMovies)
    /\ resp = NoResp
    /\ pre = movies
    /\ inflight = <<>>

\* ---------------------------------------------------------------- handlers
NotFound == [status |-> HTTP_404_NOT_FOUND, body |-> None]

\* GET /movies/
list_movies ==
    /\ resp = NoResp
    /\ LET cursor == Cursor(SubSeq(movies, 1,
                                   IF Len(movies) < ListLimit THEN Len(movies) ELSE ListLimit))
       IN  resp' = IF cursor # None
                   THEN [op |-> "list", status |-> HTTP_200_OK, body |-> cursor.docs]
                   ELSE [op |-> "list"] @@ NotFound
    /\ pre' = movies
    /\ UNCHANGED inflight
    /\ UNCHANGED <<movies, graph>>

\* the query of search_movies: one compiled pattern per truthy argument
search_query(title, actor) ==
    [f \in {k \in {"title", "cast"} : Truthy(IF k = "title" THEN title ELSE actor)} |->
        reCompile(reEscape(IF f = "title" THEN title.v ELSE actor.v))]

\* GET /movies/search/?title=&actor=
search_movies ==
    /\ resp = NoResp
    /\ \E title \in SearchArgs, actor \in SearchArgs :
          LET cursor == Cursor(find(movies, search_query(title, actor)))
              args == [op |-> "search", title |-> title, actor |-> actor]
          IN  resp' = IF ObjectBool(cursor)
                      THEN args @@ [status |-> HTTP_200_OK, body |-> cursor.docs]
                      ELSE args @@ NotFound
    /\ pre' = movies
    /\ UNCHANGED inflight
    /\ UNCHANGED <<movies, graph>>

\* PUT /movies/update/?title=
update_movie_by_title ==
    /\ resp = NoResp
    /\ \E title \in UpdateTitles, movie \in MovieUpdates :
          LET movie_data == model_dump_not_none(movie)
              update_result == update_one(movies, title, movie_data)
              args == [op |-> "update", title |-> title, movie |-> movie]
          IN  IF HasData(movie_data) /\ update_result.modified_count = 0
              THEN /\ movies' = update_result.coll
                   /\ resp' = args @@ NotFound
              ELSE LET coll == IF HasData(movie_data) THEN update_result.coll ELSE movies
                       updated_movie == find_one(coll, title)
                   IN  /\ movies' = coll
                       /\ resp' = IF updated_movie # None
                                  THEN args @@ [status |-> HTTP_200_OK, body |-> updated_movie]
                                  ELSE args @@ NotFound
    /\ pre' = movies
    /\ UNCHANGED inflight
    /\ UNCHANGED graph

\* find({}, {"title": 1}): _id and, where present, title
Project(doc) == [f \in (DOMAIN doc) \cap {"_id", "title"} |-> doc[f]]

\* GET /movies/common_movies_count
common_movies_count ==
    /\ resp = NoResp
    /\ LET mongodb_movies == [i \in 1..Len(movies) |-> Project(movies[i])]
       IN  IF \E i \in 1..Len(mongodb_movies) : ~HasField(mongodb_movies[i], "title")
           THEN \* movie["title"] raises KeyError: the request fails
                resp' = [op |-> "common", status |-> HTTP_500_INTERNAL_SERVER_ERROR, body |-> None]
           ELSE LET mongodb_titles == {mongodb_movies[i].title : i \in 1..Len(mongodb_movies)}
                    neo4j_titles == Range(titles_in(graph, mongodb_titles))
                    common_movies == mongodb_titles \cap neo4j_titles
                IN  IF common_movies # {}
                    THEN \E titles \in ListsOf(common_movies) :
                            resp' = [op |-> "common", status |-> HTTP_200_OK,
                                     body |-> [common_movies_count |-> Cardinality(common_movies),
                                               titles |-> titles]]
                    ELSE resp' = [op |-> "common"] @@ NotFound
    /\ pre' = movies
    /\ UNCHANGED inflight
    /\ UNCHANGED <<movies, graph>>

\* faulty variant: the Movie pattern is a MERGE, which creates the node it
\* does not find
users_rated_movie_merge ==
    /\ resp = NoResp
    /\ \E title \in GraphTitleArgs :
          /\ graph' = IF \E m \in 1..Len(graph.title) : PropEquals(graph.title[m], Str(title))
                      THEN graph
                      ELSE [graph EXCEPT !.title = Append(@, Str(title))]
          /\ resp' = [op |-> "users", title |-> title, status |-> HTTP_200_OK,
                      body |-> users_rows(graph, title)]
    /\ pre' = movies
    /\ UNCHANGED <<movies, inflight>>

\* GET /movies/users_rated_movie/?title=
users_rated_movie ==
    /\ resp = NoResp
    /\ \E title \in GraphTitleArgs :
          LET users == Result(users_rows(graph, title))
              args == [op |-> "users", title |-> title]
          IN  resp' = IF ObjectBool(users)
                      THEN args @@ [status |-> HTTP_200_OK, body |-> users.rows]
                      ELSE args @@ NotFound
    /\ pre' = movies
    /\ UNCHANGED inflight
    /\ UNCHANGED <<movies, graph>>

\* GET /movies/movies_rated_by_user/?name=
movies_rated_by_user ==
    /\ resp = NoResp
    /\ \E name \in GraphNameArgs :
          LET data == movies_aggregate(graph, name)
              args == [op |-> "rated", name |-> name]
          IN  resp' = IF RecordBool(data)
                      THEN args @@ [status |-> HTTP_200_OK,
                                    body |-> [user |-> name, count |-> data[1], movies |-> data[2]]]
                      ELSE args @@ NotFound
    /\ pre' = movies
    /\ UNCHANGED inflight
    /\ UNCHANGED <<movies, graph>>

\* the client receives the response; the server awaits the next request
SendResponse ==
    /\ resp # NoResp
    /\ resp' = NoResp
    /\ pre' = movies
    /\ UNCHANGED inflight
    /\ UNCHANGED <<movies, graph>>

Next ==
    \/ list_movies
    \/ search_movies
    \/ update_movie_by_title
    \/ common_movies_count
    \/ users_rated_movie
    \/ movies_rated_by_user
    \/ SendResponse

Spec == Init /\ [][Next]_vars

\* the graph lookups alone, over every graph within the bounds
NextGraph ==
    \/ users_rated_movie
    \/ movies_rated_by_user
    \/ SendResponse

SpecGraph == InitGraph /\ [][NextGraph]_vars

\* ------------------------------------------------------ concurrent updates
\* update_movie_by_title is a synchronous handler, which the framework runs
\* on a worker thread per request; update_one and find_one are two separate
\* round trips to the store, and requests interleave between them.
Requests == 1..MaxRequests

\* the requests address one title and their patches leave the title alone,
\* so that what they observe of each other comes from the interleaving only
ConcTitle == <<"A", "a">>
ConcPatches == {movie \in MovieUpdates : movie.title = None}

ConcCollections ==
    {coll \in Collections(MaxMovies) :
        \A i \in 1..Len(coll) : HasField(coll[i], "title") /\ coll[i].title # None}

InitConc ==
    /\ movies \in ConcCollections
    /\ graph = EmptyGraph
    /\ resp = NoResp
    /\ pre = movies
    /\ inflight = [r \in Requests |-> [pc |-> "start"]]

\* lines 100-109: the dump of the patch, the write and the test of modified_count
update_write(r) ==
    /\ inflight[r].pc = "start"
    /\ \E movie \in ConcPatches :
          LET movie_data == model_dump_not_none(movie)
              update_result == update_one(movies, ConcTitle, movie_data)
          IN  IF HasData(movie_data) /\ update_result.modified_count = 0
              THEN /\ movies' = update_result.coll
                   /\ inflight' = [inflight EXCEPT ![r] =
                          [pc |-> "done", movie |-> movie, modified |-> FALSE] @@ NotFound]
              ELSE /\ movies' = IF HasData(movie_data) THEN update_result.coll ELSE movies
                   /\ inflight' = [inflight EXCEPT ![r] =
                          [pc |-> "refetch", movie |-> movie, modified |-> HasData(movie_data)]]
    /\ UNCHANGED <<graph, resp, pre>>

\* lines 111-116: the re-fetch by title and the answer
update_refetch(r) ==
    /\ inflight[r].pc = "refetch"
    /\ LET updated_movie == find_one(movies, ConcTitle)
           request == [pc |-> "done", movie |-> inflight[r].movie, modified |-> inflight[r].modified]
       IN  inflight' = [inflight EXCEPT ![r] =
                IF updated_movie # None
                THEN request @@ [status |-> HTTP_200_OK, body |-> updated_movie]
                ELSE request @@ NotFound]
    /\ UNCHANGED <<movies, graph, resp, pre>>

NextConc ==
    \/ \E r \in Requests : update_write(r)
    \/ \E r \in Requests : update_refetch(r)

SpecConc == InitConc /\ [][NextConc]_vars

\* ================================================================= claims
\* text contains sub literally, up to letter case
ContainsLiterally(text, sub) ==
    \E start \in 0..(Len(text) - Len(sub)) :
        \A i \in 1..Len(sub) : Lower(text[start + i]) = Lower(sub[i])

TitleContains(doc, sub) ==
    HasField(doc, "title") /\ doc.title.tag = "str" /\ ContainsLiterally(doc.title.v, sub)

CastContains(doc, sub) ==
    /\ HasField(doc, "cast") /\ doc.cast.tag = "list"
    /\ \E i \in 1..Len(doc.cast.v) : ContainsLiterally(doc.cast.v[i], sub)

\* the record R with the patch's non-null fields laid over it
Overlaid(R, P) ==
    [f \in (DOMAIN R) \cup {k \in PatchFields : P[k] # None} |->
        IF f \in PatchFields /\ P[f] # None THEN P[f] ELSE R[f]]

EmptyPatch == [title |-> None, cast |-> None]

Exists(coll, title) == \E i \in 1..Len(coll) : HasField(coll[i], "title") /\ coll[i].title = Str(title)
First(coll, title) ==
    coll[CHOOSE i \in 1..Len(coll) :
            /\ HasField(coll[i], "title") /\ coll[i].title = Str(title)
            /\ \A j \in 1..(i - 1) : ~(HasField(coll[j], "title") /\ coll[j].title = Str(title))]

\* C1: for every existing record R with title t and every patch P, title
\* included, UpdateByTitle(t, P) returns R with exactly the non-null fields
\* of P laid over it, the other fields as in R.
C1_UpdateReturnsOverlay ==
    (resp.op = "update" /\ Exists(pre, resp.title)) =>
        /\ resp.status = HTTP_200_OK
        /\ resp.body = Overlaid(First(pre, resp.title), resp.movie)

\* C2: UpdateByTitle answers 200 with a movie whenever a record with exactly
\* that title exists, and 404 when none exists, for every patch.
C2_UpdateStatus ==
    resp.op = "update" =>
        IF Exists(pre, resp.title)
        THEN resp.status = HTTP_200_OK /\ resp.body # None
        ELSE resp.status = HTTP_404_NOT_FOUND

\* C3: UpdateByTitle with an empty patch writes nothing: the collection is
\* unchanged, the returned record is the record as it was, and NotFound is
\* reported exactly when no record has the title.
C3_EmptyPatchIsNoOp ==
    (resp.op = "update" /\ resp.movie = EmptyPatch) =>
        /\ movies = pre
        /\ IF Exists(pre, resp.title)
           THEN resp.status = HTTP_200_OK /\ resp.body = First(pre, resp.title)
           ELSE resp.status = HTTP_404_NOT_FOUND

C3_Witness ==
    /\ resp.op = "update" /\ resp.movie = EmptyPatch
    /\ resp.status = HTTP_200_OK
    /\ Len(pre) = 2 /\ resp.body = pre[2]

\* C4 as stated: SearchMovies returns exactly the records satisfying the
\* condition of every supplied (non-null) argument.
C4_SearchExactSupplied ==
    resp.op = "search" =>
        resp.body = SelectSeq(pre, LAMBDA doc :
                        /\ resp.title # None => TitleContains(doc, resp.title.v)
                        /\ resp.actor # None => CastContains(doc, resp.actor.v))

\* C4 amended: SearchMovies returns exactly the records satisfying the
\* condition of every argument that is supplied and not the empty string:
\* title contained in the record's title, actor contained in some element of
\* its cast, both up to letter case; with no such argument, every record.
C4_SearchExact ==
    resp.op = "search" =>
        resp.body = SelectSeq(pre, LAMBDA doc :
                        /\ (resp.title # None /\ resp.title.v # <<>>) => TitleContains(doc, resp.title.v)
                        /\ (resp.actor # None /\ resp.actor.v # <<>>) => CastContains(doc, resp.actor.v))

C4_Witness ==
    /\ resp.op = "search"
    /\ resp.title = Str(<<"a">>) /\ resp.actor = Str(<<"a">>)
    /\ Len(pre) = 2 /\ Len(resp.body) = 1
    /\ TitleContains(resp.body[1], <<"A", "a">>)

\* C5: SearchMovies fails with NotFound whenever no record matches the filter.
C5_SearchNotFound ==
    (resp.op = "search" /\ find(pre, search_query(resp.title, resp.actor)) = <<>>) =>
        resp.status = HTTP_404_NOT_FOUND

\* C6: SearchMovies takes its arguments as literal text: every record returned
\* contains the characters of each non-empty argument literally, up to letter
\* case, so "." in an argument matches no other character.
C6_SearchLiteral ==
    (resp.op = "search" /\ resp.status = HTTP_200_OK) =>
        \A i \in 1..Len(resp.body) :
            /\ Truthy(resp.title) => TitleContains(resp.body[i], resp.title.v)
            /\ Truthy(resp.actor) => CastContains(resp.body[i], resp.actor.v)

C6_Witness ==
    /\ resp.op = "search" /\ resp.title = Str(<<".">>) /\ resp.actor = None
    /\ Len(pre) = 2 /\ FieldEquals(pre[1], "title", Str(<<"A", "a">>))
    /\ Len(resp.body) = 1 /\ FieldEquals(resp.body[1], "title", Str(<<"a", ".">>))

\* C7: ListMovies returns at most 10 records and fails with NotFound when the
\* collection holds no record.
C7_ListNotFound ==
    resp.op = "list" =>
        /\ resp.status = HTTP_200_OK => Len(resp.body) <= ListLimit
        /\ Len(pre) = 0 => resp.status = HTTP_404_NOT_FOUND

DocTitles == {pre[i].title : i \in {j \in 1..Len(pre) : HasField(pre[j], "title") /\ pre[j].title # None}}
GraphTitles == {graph.title[m] : m \in {n \in 1..Len(graph.title) : graph.title[n] # None}}

\* C8: when some title is in both stores, CommonMoviesCount returns a title
\* list without duplicates whose set is the intersection of the document
\* titles and the graph's Movie titles, and a count equal to its size.
C8_CommonIntersection ==
    (resp.op = "common" /\ DocTitles \cap GraphTitles # {}) =>
        /\ resp.status = HTTP_200_OK
        /\ Range(resp.body.titles) = DocTitles \cap GraphTitles
        /\ Len(resp.body.titles) = Cardinality(DocTitles \cap GraphTitles)
        /\ resp.body.common_movies_count = Cardinality(DocTitles \cap GraphTitles)

\* C9: CommonMoviesCount fails with NotFound exactly when no title is in both
\* stores, and never returns a count of 0.
C9_CommonNotFound ==
    resp.op = "common" =>
        /\ resp.status = HTTP_404_NOT_FOUND <=> DocTitles \cap GraphTitles = {}
        /\ resp.status = HTTP_200_OK => resp.body.common_movies_count # 0

Reviewers(title) ==
    {p \in 1..Len(graph.name) :
        \E m \in 1..Len(graph.title) : <<p, m>> \in graph.reviewed /\ graph.title[m] = Str(title)}
ReviewedBy(name) ==
    {m \in 1..Len(graph.title) :
        \E p \in 1..Len(graph.name) : <<p, m>> \in graph.reviewed /\ graph.name[p] = Str(name)}

\* C10: the graph lookups match exactly: UsersWhoReviewed(title) returns
\* precisely the Persons with a REVIEWED edge to a Movie whose title equals
\* the argument, MoviesReviewedBy(name) precisely the Movies with a REVIEWED
\* edge from a Person whose name equals the argument, and its count is the
\* number of movies in the list.
C10_GraphExact ==
    /\ (resp.op = "users" /\ resp.status = HTTP_200_OK) =>
          Range(resp.body) = {PersonNode(graph, p) : p \in Reviewers(resp.title)}
    /\ (resp.op = "rated" /\ resp.status = HTTP_200_OK) =>
          /\ Range(resp.body.movies) = {MovieNode(graph, m) : m \in ReviewedBy(resp.name)}
          /\ resp.body.count = Len(resp.body.movies)

C10_Witness ==
    /\ resp.op = "users" /\ resp.title = <<"a", "a">>
    /\ graph.title = <<Str(<<"a", "a">>), Str(<<"A", "a">>)>>
    /\ graph.reviewed = {<<1, 1>>, <<2, 2>>}
    /\ Len(resp.body) = 1 /\ resp.body[1].id = 1

\* C11: UsersWhoReviewed(title) fails with NotFound whenever no Person has a
\* REVIEWED edge to a Movie with exactly that title.
C11_UsersNotFound ==
    (resp.op = "users" /\ Reviewers(resp.title) = {}) => resp.status = HTTP_404_NOT_FOUND

\* C12: MoviesReviewedBy(name) answers NotFound whenever no Movie is reviewed
\* by a Person of exactly that name, and never answers 200 with count 0.
C12_RatedNotFound ==
    resp.op = "rated" =>
        /\ ReviewedBy(resp.name) = {} => resp.status = HTTP_404_NOT_FOUND
        /\ resp.status = HTTP_200_OK => resp.body.count # 0

\* C13: no operation changes the graph store, and every operation other than
\* UpdateByTitle leaves the collection as it was, whether it succeeds or fails.
C13_ReadOnly ==
    [][/\ graph' = graph
       /\ resp'.op # "update" => movies' = movies]_vars

C13_Witness ==
    /\ resp.op = "common" /\ resp.status = HTTP_200_OK
    /\ Len(movies) = 2 /\ movies = pre
    /\ graph.reviewed # {}

\* C14: after any UpdateByTitle each record has the identifier it had, and no
\* two records share an identifier.
C14_IdentifiersKept ==
    /\ Len(movies) = Len(pre)
    /\ \A i \in 1..Len(movies) : movies[i]._id = pre[i]._id
    /\ \A i, j \in 1..Len(movies) : movies[i]._id = movies[j]._id => i = j

C14_Witness ==
    /\ resp.op = "update" /\ resp.status = HTTP_200_OK
    /\ resp.movie.title # None /\ resp.movie.cast # None
    /\ Len(movies) = 2 /\ movies[1] # pre[1]

\* C15: one UpdateByTitle changes at most one record, also when several carry
\* the title; the number of records is unchanged; and when it answers
\* NotFound no record has been changed.
C15_UpdateAtMostOne ==
    resp.op = "update" =>
        /\ Len(movies) = Len(pre)
        /\ Cardinality({i \in 1..Len(movies) : movies[i] # pre[i]}) <= 1
        /\ resp.status = HTTP_404_NOT_FOUND => movies = pre

\* C16: under any interleaving of concurrent UpdateByTitle requests on one
\* title, a request that answers 200 returns a record whose fields named in
\* its own patch carry the patch's values, and a request whose write modified
\* a record never answers NotFound.
C16_ReadYourWrite ==
    \A r \in DOMAIN inflight :
        inflight[r].pc = "done" =>
            /\ inflight[r].status = HTTP_200_OK =>
                  \A f \in PatchFields :
                      inflight[r].movie[f] # None =>
                          FieldEquals(inflight[r].body, f, inflight[r].movie[f])
            /\ inflight[r].modified => inflight[r].status # HTTP_404_NOT_FOUND
====
